---- MODULE Spec2Model ----
(***************************************************************************)
(* The recursive-descent parser of Robin (src/robin/parser.py) as a state  *)
(* machine.                                                                *)
(*                                                                         *)
(* The statement level (block, statement, if/elif/else, while, def) is a   *)
(* machine with an explicit call stack, one action per stretch of code     *)
(* between two calls of block(), statement() or elif_statement().  The     *)
(* expression level (expr .. factor, argument_list, variable) consumes     *)
(* tokens of one line only and never touches self.indent; it is a family   *)
(* of recursive operators from a cursor to a result.                       *)
(*                                                                         *)
(* The lexer is not part of the sources.  A token is [type, value]; as     *)
(* eat('if'), eat(':'), eat(self.current_token.value) require, the type    *)
(* of a keyword, delimiter or operator token is its text.  The parser      *)
(* reads tokens.EOF, tokens.keywords.IF/.WHILE/.DEF/.ELSE and              *)
(* tokens.delimiter['('] / ['=']; they are taken to be the end marker's    *)
(* value and the texts 'if', 'while', 'def', 'else', '(' and '='.          *)
(***************************************************************************)
EXTENDS Integers, Sequences, FiniteSets, TLC

VARIABLES
    tokens,       \* the token stream the lexer has produced so far
    lines,        \* the number of source fragments the lexer has read
    peek_none,    \* lexer flavour: peek_token() is None in front of the end marker
    pos,          \* index in tokens of self.current_token
    indent,       \* self.indent
    stack,        \* the call stack of the statement-level productions
    ret,          \* the value the last completed production returned
    status,       \* "running", "returned" or "failed"
    failure,      \* the exception that ended the parse
    tree,         \* what parse() returned
    production,   \* the production statement() chose last
    src           \* the expression whose text is parsed (expression runs only)

vars == <<tokens, lines, peek_none, pos, indent, stack, ret, status, failure, tree,
          production, src>>

(***************************************************************************)
(* Bounds of the model.                                                    *)
(***************************************************************************)
MaxLines == 3

MaxChildren == 4

MaxLeaves == 3

(***************************************************************************)
(* lexer/tokens.py and robin/settings.py                                   *)
(***************************************************************************)
ENDMARKER == "endmarker"

NEWLINE == "newline"

INDENT == "indent"

DEDENT == "dedent"

ID == "id"

NUMBER == "number"

STRING_TOKEN == "string"

EOF == "EOF"

\* from robin.settings, which is not part of the sources: columns per level
INDENT_LENGTH == 4

operator ==
    {"+", "-", "*", "**", "/", "//", "%", "<<", ">>", "&", "|", "^", "~",
     "<", ">", "<=", ">=", "==", "!="}

Token(type, value) == [type |-> type, value |-> value]

\* The value of an indent or dedent token is a number, every other one a string.
IsStr(t) == t.type \notin {INDENT, DEDENT}

\* Python's t.value == s (False, not an error, between a number and a string).
PyEq(t, s) == IsStr(t) /\ t.value = s

\* The strings x with x in '+-' and x in '*/' (Python's substring test).
InPlusMinus == {"", "+", "-", "+-"}

InMulDiv == {"", "*", "/", "*/"}

EOFToken == Token(ENDMARKER, EOF)

NoToken == Token("None", "None")

IsNone(t) == t.type = "None"

(***************************************************************************)
(* The lexer: next_token() and peek_token().                               *)
(***************************************************************************)
\* self.current_token when the cursor is at p; the end marker forever after.
Tok(p) == IF p <= Len(tokens) THEN tokens[p] ELSE EOFToken

peek_token(p) ==
    IF p + 1 > Len(tokens) THEN NoToken
    ELSE IF peek_none /\ tokens[p + 1].type = ENDMARKER THEN NoToken
    ELSE tokens[p + 1]

(***************************************************************************)
(* AST nodes (robin.ast), as tagged tuples.                                *)
(***************************************************************************)
None == <<"None">>

EmptyOp == <<"EmptyOp">>

Block(children) == <<"Block", children>>

\* The outcome of a production: how it ended, the cursor, the node.
R(st, p, node) == [st |-> st, pos |-> p, node |-> node]

(***************************************************************************)
(* Parser.eat / Parser.error                                               *)
(***************************************************************************)
eat(p, type) ==
    IF Tok(p).type = type THEN R("ok", p + 1, None)
    ELSE R("Exception", p, None)

variable(p) ==
    LET e == eat(p, ID)
    IN  IF e.st = "ok" THEN R("ok", e.pos, <<"Var", Tok(p)>>) ELSE e

(***************************************************************************)
(* The expression productions.  self is the parser: self[<<"expr", p>>]    *)
(* is self.expr() called with the cursor at p.                             *)
(***************************************************************************)
factor(self, p) ==
    LET t == Tok(p)
        unary == LET f == self[<<"factor", p + 1>>]
                 IN  IF f.st = "ok"
                     THEN R("ok", f.pos, <<"UnaryOp", t, f.node>>) ELSE f
    IN  IF t.type \in InPlusMinus
        THEN IF t.type = "+" THEN unary
             ELSE IF PyEq(t, "-")
                  THEN IF t.type = "-" THEN unary ELSE R("Exception", p, None)
                  ELSE R("ok", p, None)
        ELSE IF t.type = NUMBER THEN R("ok", p + 1, <<"Num", t>>)
        ELSE IF t.type = ID
             THEN IF IsNone(peek_token(p)) THEN R("AttributeError", p, None)
                  ELSE IF peek_token(p).type = "(" THEN self[<<"function_call", p>>]
                  ELSE variable(p)
        ELSE IF t.type = "("
             THEN LET e == self[<<"expr", p + 1>>]
                  IN  IF e.st # "ok" THEN e
                      ELSE LET c == eat(e.pos, ")")
                           IN  IF c.st = "ok" THEN R("ok", c.pos, e.node) ELSE c
        ELSE IF t.type \in {"True", "False"} THEN R("ok", p + 1, <<"Bool", t>>)
        ELSE IF t.type = STRING_TOKEN THEN R("ok", p + 1, <<"RegularStr", t>>)
        ELSE R("ok", p, None)

RECURSIVE mul_div_loop(_, _), plus_minus_loop(_, _), expr_loop(_, _),
          argument_loop(_, _, _)

\* while self.current_token.value in '*/': eat(value); right = self.factor()
mul_div_loop(self, r) ==
    IF r.st # "ok" THEN r
    ELSE LET t == Tok(r.pos)
         IN  IF ~IsStr(t) THEN R("TypeError", r.pos, None)
             ELSE IF t.value \notin InMulDiv THEN r
             ELSE IF t.type # t.value THEN R("Exception", r.pos, None)
             ELSE LET f == self[<<"factor", r.pos + 1>>]
                  IN  IF f.st # "ok" THEN f
                      ELSE mul_div_loop(self,
                                        R("ok", f.pos, <<"Op", r.node, t, f.node>>))

term_mul_div(self, p) == mul_div_loop(self, self[<<"factor", p>>])

\* while self.current_token.value in '+-': eat(type); right = self.term_mul_div()
plus_minus_loop(self, r) ==
    IF r.st # "ok" THEN r
    ELSE LET t == Tok(r.pos)
         IN  IF ~IsStr(t) THEN R("TypeError", r.pos, None)
             ELSE IF t.value \notin InPlusMinus THEN r
             ELSE LET f == self[<<"term_mul_div", r.pos + 1>>]
                  IN  IF f.st # "ok" THEN f
                      ELSE plus_minus_loop(self,
                                           R("ok", f.pos, <<"Op", r.node, t, f.node>>))

\* The slip of parsing a bare factor where a term is due.
term_plus_minus_flat(self, p) == plus_minus_loop(self, self[<<"factor", p>>])

term_plus_minus(self, p) == plus_minus_loop(self, self[<<"term_mul_div", p>>])

\* while self.current_token.value in tokens.operator: eat(value); right = ...
expr_loop(self, r) ==
    IF r.st # "ok" THEN r
    ELSE LET t == Tok(r.pos)
         IN  IF ~(IsStr(t) /\ t.value \in operator) THEN r
             ELSE IF t.type # t.value THEN R("Exception", r.pos, None)
             ELSE LET f == self[<<"term_plus_minus", r.pos + 1>>]
                  IN  IF f.st # "ok" THEN f
                      ELSE expr_loop(self,
                                     R("ok", f.pos, <<"Op", r.node, t, f.node>>))

expr(self, p) == expr_loop(self, self[<<"term_plus_minus", p>>])

\* while self.current_token.value == ',': eat(','); args.append(self.expr())
argument_loop(self, p, args) ==
    IF ~PyEq(Tok(p), ",") THEN R("ok", p, args)
    ELSE LET c == eat(p, ",")
         IN  IF c.st # "ok" THEN c
             ELSE LET e == self[<<"expr", c.pos>>]
                  IN  IF e.st # "ok" THEN e
                      ELSE argument_loop(self, e.pos, Append(args, e.node))

argument_list(self, p) ==
    LET o == eat(p, "(")
    IN  IF o.st # "ok" THEN o
        ELSE LET a == IF PyEq(Tok(o.pos), ")") THEN R("ok", o.pos, <<>>)
                      ELSE LET e == self[<<"expr", o.pos>>]
                           IN  IF e.st # "ok" THEN e
                               ELSE argument_loop(self, e.pos, <<e.node>>)
             IN  IF a.st # "ok" THEN a
                 ELSE LET c == eat(a.pos, ")")
                      IN  IF c.st = "ok" THEN R("ok", c.pos, a.node) ELSE c

function_call(self, p) ==
    LET v == variable(p)
    IN  IF v.st # "ok" THEN v
        ELSE LET a == argument_list(self, v.pos)
             IN  IF a.st # "ok" THEN a
                 ELSE R("ok", a.pos, <<"FunctionCall", v.node, a.node>>)

\* The parser object: its expression methods, each a function of the cursor.
Parser[call \in {"expr", "term_plus_minus", "term_mul_div", "factor",
                 "function_call"} \X Nat] ==
    CASE call[1] = "expr" -> expr(Parser, call[2])
      [] call[1] = "term_plus_minus" -> term_plus_minus(Parser, call[2])
      [] call[1] = "term_mul_div" -> term_mul_div(Parser, call[2])
      [] call[1] = "factor" -> factor(Parser, call[2])
      [] call[1] = "function_call" -> function_call(Parser, call[2])

(***************************************************************************)
(* The simple statements and the heads of the compound ones.               *)
(***************************************************************************)
empty(p) ==
    IF Tok(p).type = NEWLINE
    THEN LET e == eat(p, NEWLINE) IN R(e.st, e.pos, EmptyOp)
    ELSE R("ok", p, EmptyOp)

assign_statement(p) ==
    LET left == variable(p)
    IN  IF left.st # "ok" THEN left
        ELSE LET token == Tok(left.pos)
                 a == eat(left.pos, "=")
             IN  IF a.st # "ok" THEN a
                 ELSE LET right == Parser[<<"expr", a.pos>>]
                      IN  IF right.st # "ok" THEN right
                          ELSE LET n == eat(right.pos, NEWLINE)
                               IN  IF n.st # "ok" THEN n
                                   ELSE R("ok", n.pos,
                                          <<"Assign", left.node, token, right.node>>)

\* statement(): statement = self.function_call(); self.eat(tokens.NEWLINE)
function_call_statement(p) ==
    LET c == Parser[<<"function_call", p>>]
    IN  IF c.st # "ok" THEN c
        ELSE LET n == eat(c.pos, NEWLINE)
             IN  IF n.st = "ok" THEN R("ok", n.pos, c.node) ELSE n

\* self.eat(':'); self.eat(tokens.NEWLINE)
colon_newline(p) ==
    LET c == eat(p, ":") IN IF c.st # "ok" THEN c ELSE eat(c.pos, NEWLINE)

\* eat(keyword); condition = self.expr(); eat(':'); eat(NEWLINE).
\* The node of the result is <<condition, token>>.
condition_head(p, keyword) ==
    LET k == eat(p, keyword)
    IN  IF k.st # "ok" THEN k
        ELSE LET c == Parser[<<"expr", k.pos>>]
             IN  IF c.st # "ok" THEN c
                 ELSE LET n == colon_newline(c.pos)
                      IN  IF n.st # "ok" THEN n
                          ELSE R("ok", n.pos, <<c.node, Tok(p)>>)

if_head(p) == condition_head(p, "if")

elif_head(p) == condition_head(p, "elif")

while_head(p) == condition_head(p, "while")

else_head(p) ==
    LET k == eat(p, "else") IN IF k.st # "ok" THEN k ELSE colon_newline(k.pos)

\* The node of the result is <<name, params>>.
function_def_head(p) ==
    LET k == eat(p, "def")
    IN  IF k.st # "ok" THEN k
        ELSE LET name == variable(k.pos)
             IN  IF name.st # "ok" THEN name
                 ELSE LET params == argument_list(Parser, name.pos)
                      IN  IF params.st # "ok" THEN params
                          ELSE LET n == colon_newline(params.pos)
                               IN  IF n.st # "ok" THEN n
                                   ELSE R("ok", n.pos, <<name.node, params.node>>)

(***************************************************************************)
(* Parser.check_indent / Parser.eat_indent                                 *)
(***************************************************************************)
\* The slip of leaving out the top-level shortcut.
check_indent_strict(p, ind) ==
    IF Tok(p).type # INDENT THEN FALSE
    ELSE ind * INDENT_LENGTH = Tok(p).value

check_indent(p, ind) ==
    IF ind = 0 THEN TRUE
    ELSE IF Tok(p).type # INDENT THEN FALSE
    ELSE IF ind * INDENT_LENGTH # Tok(p).value THEN FALSE
    ELSE TRUE

eat_indent(p, ind) ==
    IF Tok(p).type = INDENT
    THEN IF ind * INDENT_LENGTH # Tok(p).value
         THEN R("IndentationError", p, None)
         ELSE eat(p, INDENT)
    ELSE R("ok", p, None)

(***************************************************************************)
(* Parser.statement: the production chosen from the current token and one  *)
(* token of lookahead.                                                     *)
(***************************************************************************)
\* The slip of testing the two lookaheads the wrong way round.
statement_production_swapped(p) ==
    LET t == Tok(p)
    IN  IF t.type = ID
        THEN IF IsNone(peek_token(p)) THEN "empty"
             ELSE IF PyEq(peek_token(p), "=") THEN "function_call"
             ELSE IF PyEq(peek_token(p), "(") THEN "assign_statement"
             ELSE "empty"
        ELSE IF PyEq(t, "if") THEN "if_statement"
        ELSE IF PyEq(t, "while") THEN "while_statement"
        ELSE IF PyEq(t, "def") THEN "function_def"
        ELSE "empty"

statement_production(p) ==
    LET t == Tok(p)
    IN  IF t.type = ID
        THEN IF IsNone(peek_token(p)) THEN "empty"
             ELSE IF PyEq(peek_token(p), "(") THEN "function_call"
             ELSE IF PyEq(peek_token(p), "=") THEN "assign_statement"
             ELSE "empty"
        ELSE IF PyEq(t, "if") THEN "if_statement"
        ELSE IF PyEq(t, "while") THEN "while_statement"
        ELSE IF PyEq(t, "def") THEN "function_def"
        ELSE "empty"

(***************************************************************************)
(* The input.  The lexer reads the source a fragment at a time: a line (an *)
(* optional indent or dedent token, a body and a newline token), or a      *)
(* header line with its one-line body.                                     *)
(***************************************************************************)
NL == Token(NEWLINE, "\n")

Text(x) == Token(x, x)

Name(x) == Token(ID, x)

Bodies ==
    { <<Name("a"), Text("="), Token(NUMBER, "1"), NL>>,
      <<Name("f"), Text("("), Token(NUMBER, "1"), Text(","), Name("a"), Text(")"), NL>>,
      <<Name("a"), NL>>,
      <<NL>>,
      <<Text("if"), Name("a"), Text(":"), NL>>,
      <<Text("elif"), Name("a"), Text(":"), NL>>,
      <<Text("else"), Text(":"), NL>>,
      <<Text("while"), Name("a"), Text("<"), Token(NUMBER, "1"), Text(":"), NL>>,
      <<Text("def"), Name("f"), Text("("), Name("a"), Text(")"), Text(":"), NL>>,
      <<Text("if"), Name("a"), NL>>,
      <<Name("a"), Text("="), NL>> }

NestedBodies ==
    { <<Name("a"), Text("="), Token(NUMBER, "1"), NL>>,
      <<Text("if"), Name("a"), Text(":"), NL>>,
      <<Text("elif"), Name("a"), Text(":"), NL>>,
      <<Text("else"), Text(":"), NL>>,
      <<Text("while"), Name("a"), Text("<"), Token(NUMBER, "1"), Text(":"), NL>> }

DeepBodies == { <<Name("a"), Text("="), Token(NUMBER, "1"), NL>> }

\* A nested if with its body, and an else with its body.
TwoLines ==
    { <<Token(INDENT, INDENT_LENGTH), Text("if"), Name("a"), Text(":"), NL,
        Token(INDENT, 2 * INDENT_LENGTH), Name("a"), Text("="), Token(NUMBER, "1"), NL>>,
      <<Text("else"), Text(":"), NL,
        Token(INDENT, INDENT_LENGTH), Name("a"), Text("="), Token(NUMBER, "1"), NL>> }

\* What the lexer reads at a time.
Lines ==
    Bodies
    \cup TwoLines
    \cup { <<Token(INDENT, INDENT_LENGTH)>> \o b : b \in NestedBodies }
    \cup { <<Token(INDENT, 2 * INDENT_LENGTH)>> \o b : b \in DeepBodies }
    \cup { <<Token(INDENT, INDENT_LENGTH + 2)>> \o b : b \in DeepBodies }
    \cup { <<Token(DEDENT, 1)>> \o b : b \in DeepBodies }

\* How the source ends: at the start of a line, or after an identifier.
EndLines == { <<EOFToken>>, <<Name("a"), EOFToken>> }

\* The current token has been produced.
HasTok == pos <= Len(tokens)

(***************************************************************************)
(* The call stack.                                                         *)
(***************************************************************************)
Frame(fn, pc, loc) == [fn |-> fn, pc |-> pc, loc |-> loc]

Top == stack[Len(stack)]

Pop == SubSeq(stack, 1, Len(stack) - 1)

Replace(f) == [stack EXCEPT ![Len(stack)] = f]

At(fn, pc) ==
    /\ status = "running"
    /\ stack # <<>>
    /\ Top.fn = fn
    /\ Top.pc = pc

\* One step of the parser that raises nothing.
Step(p, ind, stk, rv, prod) ==
    /\ pos' = p
    /\ indent' = ind
    /\ stack' = stk
    /\ ret' = rv
    /\ production' = prod
    /\ UNCHANGED <<tokens, lines, peek_none, status, failure, tree, src>>

\* An exception leaves the parser: nothing catches it, nothing restores indent.
Raise(r, prod) ==
    /\ status' = "failed"
    /\ failure' = r.st
    /\ pos' = r.pos
    /\ stack' = <<>>
    /\ production' = prod
    /\ UNCHANGED <<tokens, lines, peek_none, indent, ret, tree, src>>

\* A production returns r.node to its caller.
Return(r, ind, prod) ==
    IF r.st = "ok" THEN Step(r.pos, ind, Pop, r.node, prod) ELSE Raise(r, prod)

\* A production has parsed its head r, enters its block and calls block().
Enter(r, pc) ==
    IF r.st = "ok"
    THEN Step(r.pos, indent + 1,
              Append(Replace(Frame(Top.fn, pc, r.node)),
                     Frame("block", "loop", <<<<>>, r.pos>>)),
              ret, production)
    ELSE Raise(r, production)

(***************************************************************************)
(* Init: the parser after Parser(lexer), which reads the first token.      *)
(***************************************************************************)
Init ==
    /\ tokens \in Lines \cup EndLines
    /\ lines = 1
    /\ peek_none \in BOOLEAN
    /\ pos = 1
    /\ indent = 0
    /\ stack = <<Frame("parse", "start", <<>>)>>
    /\ ret = None
    /\ status = "running"
    /\ failure = ""
    /\ tree = None
    /\ production = ""
    /\ src = None

\* next_token() reads into the next line of the source.
Lex ==
    /\ status = "running"
    /\ pos = Len(tokens) + 1
    /\ \E line \in Lines \cup EndLines :
          /\ line \in Lines => lines < MaxLines
          /\ tokens' = tokens \o line
          /\ lines' = lines + 1
    /\ UNCHANGED <<peek_none, pos, indent, stack, ret, status, failure, tree,
                   production, src>>

(***************************************************************************)
(* parse, program                                                          *)
(***************************************************************************)
Parse ==
    /\ At("parse", "start")
    /\ Step(pos, indent,
            <<Frame("program", "block", <<>>), Frame("block", "loop", <<<<>>, pos>>)>>,
            ret, production)

ProgramReturn ==
    /\ At("program", "block")
    /\ status' = "returned"
    /\ tree' = <<"Program", ret>>
    /\ stack' = <<>>
    /\ UNCHANGED <<tokens, lines, peek_none, pos, indent, ret, failure, production, src>>

(***************************************************************************)
(* block: the frame holds <<result, cursor at the start of this pass>>.    *)
(***************************************************************************)
BlockContinues ==
    check_indent(pos, indent) /\ ~PyEq(Tok(pos), EOF)

BlockIterate ==
    /\ At("block", "loop")
    /\ HasTok
    /\ BlockContinues
    /\ Len(Top.loc[1]) < MaxChildren
    /\ LET r == eat_indent(pos, indent)
       IN  IF r.st = "ok"
           THEN Step(r.pos, indent,
                     Append(Replace(Frame("block", "statement", <<Top.loc[1], pos>>)),
                            Frame("statement", "start", <<>>)),
                     ret, production)
           ELSE Raise(r, production)

BlockAppend ==
    /\ At("block", "statement")
    /\ Step(pos, indent,
            Replace(Frame("block", "loop", <<Append(Top.loc[1], ret), Top.loc[2]>>)),
            ret, production)

BlockReturn ==
    /\ At("block", "loop")
    /\ HasTok
    /\ ~BlockContinues
    /\ Step(pos, indent, Pop, Block(Top.loc[1]), production)

(***************************************************************************)
(* statement                                                               *)
(***************************************************************************)
Chooses(name) ==
    /\ At("statement", "start")
    /\ HasTok
    /\ statement_production(pos) = name

StatementFunctionCall ==
    /\ Chooses("function_call")
    /\ Return(function_call_statement(pos), indent, "function_call")

StatementAssign ==
    /\ Chooses("assign_statement")
    /\ Return(assign_statement(pos), indent, "assign_statement")

StatementEmpty ==
    /\ Chooses("empty")
    /\ Return(empty(pos), indent, "empty")

\* statement() returns what the production returns: the frame becomes its frame.
StatementCompound ==
    \E name \in {"if_statement", "while_statement", "function_def"} :
        /\ Chooses(name)
        /\ Step(pos, indent, Replace(Frame(name, "start", <<>>)), ret, name)

(***************************************************************************)
(* function_def, while_statement                                           *)
(***************************************************************************)
FunctionDef ==
    /\ At("function_def", "start")
    /\ Enter(function_def_head(pos), "block")

FunctionDefReturn ==
    /\ At("function_def", "block")
    /\ Step(pos, indent - 1, Pop,
            <<"FunctionDef", Top.loc[1], Top.loc[2], ret>>, production)

While ==
    /\ At("while_statement", "start")
    /\ Enter(while_head(pos), "block")

\* The slip of leaving out self.indent -= 1.
WhileReturnKeepsIndent ==
    /\ At("while_statement", "block")
    /\ Step(pos, indent, Pop, <<"While", Top.loc[1], Top.loc[2], ret>>, production)

WhileReturn ==
    /\ At("while_statement", "block")
    /\ Step(pos, indent - 1, Pop,
            <<"While", Top.loc[1], Top.loc[2], ret>>, production)

(***************************************************************************)
(* if_statement, elif_statement                                            *)
(***************************************************************************)
If ==
    /\ At("if_statement", "start")
    /\ Enter(if_head(pos), "block")

\* self.indent -= 1; wrong_block = self.elif_statement()
IfElif ==
    /\ \E fn \in {"if_statement", "elif_statement"} : At(fn, "block")
    /\ Step(pos, indent - 1,
            Append(Replace(Frame(Top.fn, "elif", <<Top.loc[1], Top.loc[2], ret>>)),
                   Frame("elif_statement", "start", <<>>)),
            ret, production)

\* return ast.If(condition, token, right_block, wrong_block)
IfReturn ==
    /\ \E fn \in {"if_statement", "elif_statement"} : At(fn, "elif")
    /\ Step(pos, indent, Pop,
            <<"If", Top.loc[1], Top.loc[2], Top.loc[3], ret>>, production)

Elif ==
    /\ At("elif_statement", "start")
    /\ HasTok
    /\ PyEq(Tok(pos), "elif")
    /\ Enter(elif_head(pos), "block")

Else ==
    /\ At("elif_statement", "start")
    /\ HasTok
    /\ ~PyEq(Tok(pos), "elif")
    /\ PyEq(Tok(pos), "else")
    /\ Enter(else_head(pos), "else")

ElseReturn ==
    /\ At("elif_statement", "else")
    /\ Step(pos, indent - 1, Pop, ret, production)

ElifEmpty ==
    /\ At("elif_statement", "start")
    /\ HasTok
    /\ ~PyEq(Tok(pos), "elif")
    /\ ~PyEq(Tok(pos), "else")
    /\ Return(empty(pos), indent, production)

Next ==
    \/ Lex
    \/ Parse
    \/ ProgramReturn
    \/ BlockIterate
    \/ BlockAppend
    \/ BlockReturn
    \/ StatementFunctionCall
    \/ StatementAssign
    \/ StatementEmpty
    \/ StatementCompound
    \/ FunctionDef
    \/ FunctionDefReturn
    \/ While
    \/ WhileReturn
    \/ If
    \/ IfElif
    \/ IfReturn
    \/ Elif
    \/ Else
    \/ ElseReturn
    \/ ElifEmpty

Spec == Init /\ [][Next]_vars

(***************************************************************************)
(* Expression runs: the text of an expression tree, written with the       *)
(* parentheses its operators' conventional precedence and left             *)
(* associativity call for, is handed to expr().                            *)
(***************************************************************************)
Atoms == { <<"Num", Token(NUMBER, "1")>>, <<"Var", Name("a")>> }

BinaryOperators == {"*", "/", "+", "-", "<", "=="}

RECURSIVE Trees(_)
Trees(n) ==
    IF n = 1 THEN Atoms
    ELSE UNION { { <<"Op", l, Text(o), r>> :
                     l \in Trees(k), r \in Trees(n - k), o \in BinaryOperators } :
                 k \in 1..(n - 1) }

\* 3 multiplicative, 2 additive, 1 comparison; an operand that is no Op: 4.
Precedence(node) ==
    IF node[1] # "Op" THEN 4
    ELSE IF node[3].value \in {"*", "/"} THEN 3
    ELSE IF node[3].value \in {"+", "-"} THEN 2
    ELSE 1

Parenthesized(text) == <<Text("(")>> \o text \o <<Text(")")>>

RECURSIVE Unparse(_)
Unparse(node) ==
    IF node[1] # "Op" THEN <<node[2]>>
    ELSE (IF Precedence(node[2]) < Precedence(node)
          THEN Parenthesized(Unparse(node[2])) ELSE Unparse(node[2]))
         \o <<node[3]>>
         \o (IF Precedence(node[4]) <= Precedence(node)
             THEN Parenthesized(Unparse(node[4])) ELSE Unparse(node[4]))

ExprInit ==
    /\ \E n \in 1..MaxLeaves : src \in Trees(n)
    /\ tokens = Unparse(src) \o <<NL, EOFToken>>
    /\ lines = 1
    /\ peek_none = FALSE
    /\ pos = 1
    /\ indent = 0
    /\ stack = <<>>
    /\ ret = None
    /\ status = "running"
    /\ failure = ""
    /\ tree = None
    /\ production = ""

\* node = self.expr()
Expr ==
    /\ status = "running"
    /\ stack = <<>>
    /\ LET r == Parser[<<"expr", pos>>]
       IN  /\ pos' = r.pos
           /\ ret' = r.node
           /\ status' = IF r.st = "ok" THEN "returned" ELSE "failed"
           /\ failure' = IF r.st = "ok" THEN "" ELSE r.st
    /\ UNCHANGED <<tokens, lines, peek_none, indent, stack, tree, production, src>>

ExprNext == Expr

ExprSpec == ExprInit /\ [][ExprNext]_vars

(***************************************************************************)
(* What the claims speak of.                                               *)
(***************************************************************************)
Returned == status = "returned"

\* The children of the Block the returned Program holds.
Children == tree[2][2]

\* A line of the source starts at i.
LineStart(i) == i = 1 \/ tokens[i - 1].type = NEWLINE

\* The start of the line that holds position i.
RECURSIVE LineOf(_)
LineOf(i) == IF LineStart(i) THEN i ELSE LineOf(i - 1)

\* The indentation of the line that holds position i, in columns.
LineIndent(i) ==
    IF tokens[LineOf(i)].type = INDENT THEN tokens[LineOf(i)].value ELSE 0

IsKeyword(t, words) == IsStr(t) /\ t.type = t.value /\ t.value \in words

\* A block header ends at i: a colon at the end of its line.
Header(i) == tokens[i].type = ":" /\ tokens[i + 1].type = NEWLINE

\* The line after every block header is indented one level deeper than it.
BodiesIndented ==
    \A i \in 1..(Len(tokens) - 2) :
        Header(i) => /\ tokens[i + 2].type = INDENT
                     /\ tokens[i + 2].value = LineIndent(i) + INDENT_LENGTH

\* A top-level statement starts at i: a line at column 0 that does not
\* continue an if statement.
TopLevelStart(i) ==
    /\ LineStart(i)
    /\ tokens[i].type \notin {INDENT, DEDENT, ENDMARKER}
    /\ ~IsKeyword(tokens[i], {"elif", "else"})

\* The node a statement that starts at i parses to.
StatementKind(i) ==
    LET t == tokens[i]
        after == IF i + 1 <= Len(tokens) THEN tokens[i + 1] ELSE EOFToken
    IN  IF IsKeyword(t, {"if"}) THEN "If"
        ELSE IF IsKeyword(t, {"while"}) THEN "While"
        ELSE IF IsKeyword(t, {"def"}) THEN "FunctionDef"
        ELSE IF t.type = ID /\ after.type = "(" THEN "FunctionCall"
        ELSE IF t.type = ID /\ after.type = "=" THEN "Assign"
        ELSE "EmptyOp"

\* The kinds of the top-level statements of the source from i on, in order.
RECURSIVE TopLevelKinds(_)
TopLevelKinds(i) ==
    IF i > Len(tokens) THEN <<>>
    ELSE (IF TopLevelStart(i) THEN <<StatementKind(i)>> ELSE <<>>)
         \o TopLevelKinds(i + 1)

RECURSIVE Kinds(_)
Kinds(nodes) ==
    IF nodes = <<>> THEN <<>> ELSE <<Head(nodes)[1]>> \o Kinds(Tail(nodes))

\* The constructs that have entered their block and not left it.
RECURSIVE OpenBlocks(_)
OpenBlocks(stk) ==
    IF stk = <<>> THEN 0
    ELSE (IF Head(stk).fn \in {"function_def", "while_statement", "if_statement",
                               "elif_statement"}
             /\ Head(stk).pc \in {"block", "else"} THEN 1 ELSE 0)
         + OpenBlocks(Tail(stk))

RECURSIVE BlockFrames(_)
BlockFrames(stk) ==
    IF stk = <<>> THEN 0
    ELSE (IF Head(stk).fn = "block" THEN 1 ELSE 0) + BlockFrames(Tail(stk))

\* No Block of the node is empty; an if without else holds EmptyOp, no Block.
RECURSIVE BlocksFilled(_)
BlocksFilled(node) ==
    IF node[1] = "Program" THEN BlocksFilled(node[2])
    ELSE IF node[1] = "Block"
         THEN /\ node[2] # <<>>
              /\ \A k \in 1..Len(node[2]) : BlocksFilled(node[2][k])
    ELSE IF node[1] = "If" THEN BlocksFilled(node[4]) /\ BlocksFilled(node[5])
    ELSE IF node[1] \in {"While", "FunctionDef"} THEN BlocksFilled(node[4])
    ELSE TRUE

(***************************************************************************)
(* C1.  parse_program terminates.  A pass of the block loop that ends with *)
(* the cursor where it began has changed neither the cursor nor the        *)
(* indent, so the loop repeats it for ever: termination needs every pass   *)
(* of the loop (eat_indent and one statement) to consume a token.          *)
(***************************************************************************)
C1_EveryPassConsumes ==
    At("block", "statement") => pos > Top.loc[2]

(***************************************************************************)
(* C2.  When the line after a block header is a statement (not a blank     *)
(* line, not the elif or else of its chain) and does not start with an     *)
(* indentation token of the header's depth plus one, times INDENT_LENGTH,  *)
(* no Program is returned.                                                 *)
(***************************************************************************)
C2_MissingIndentNeverReturns ==
    Returned =>
        \A i \in 1..(Len(tokens) - 2) :
            (/\ Header(i)
             /\ tokens[i + 2].type \notin {NEWLINE, ENDMARKER}
             /\ ~IsKeyword(tokens[i + 2], {"elif", "else"}))
            => /\ tokens[i + 2].type = INDENT
               /\ tokens[i + 2].value = LineIndent(i) + INDENT_LENGTH

(***************************************************************************)
(* C3.  An if statement followed by an else: the wrong_block of the last   *)
(* If of its chain is the else body.  Stated for the if statement the      *)
(* source starts with, in a source whose blocks are all indented: when     *)
(* the next line at column 0 is an else and no line in between is an elif  *)
(* or else, the first child of the Program is an If whose wrong_block is   *)
(* the Block of the else.                                                  *)
(***************************************************************************)
C3_ElseIsWrongBlock ==
    (/\ Returned
     /\ BodiesIndented
     /\ IsKeyword(tokens[1], {"if"})
     /\ \E j \in 2..Len(tokens) :
           /\ LineStart(j)
           /\ IsKeyword(tokens[j], {"else"})
           /\ \A i \in 2..(j - 1) :
                 LineStart(i) => /\ tokens[i].type = INDENT
                                 /\ ~IsKeyword(tokens[i + 1], {"elif", "else"}))
    => /\ Children # <<>>
       /\ Children[1][1] = "If"
       /\ Children[1][5][1] = "Block"
       /\ Children[1][5][2] # <<>>

(***************************************************************************)
(* C4.  statement() chooses its production from the current token and at  *)
(* most one token of lookahead, by the table: identifier and no lookahead  *)
(* -> empty, identifier and "(" -> function call, identifier and "=" ->    *)
(* assignment, identifier and anything else -> empty, if / while / def ->  *)
(* their productions, any other token -> empty; and what it returns is     *)
(* what that production builds.                                            *)
(***************************************************************************)
DispatchTable ==
    LET t == Tok(pos)
        lookahead == peek_token(pos)
    IN  IF t.type = ID
        THEN IF IsNone(lookahead) THEN "empty"
             ELSE IF lookahead.type = "(" THEN "function_call"
             ELSE IF lookahead.type = "=" THEN "assign_statement"
             ELSE "empty"
        ELSE IF IsKeyword(t, {"if"}) THEN "if_statement"
        ELSE IF IsKeyword(t, {"while"}) THEN "while_statement"
        ELSE IF IsKeyword(t, {"def"}) THEN "function_def"
        ELSE "empty"

C4_Dispatch ==
    [][(At("statement", "start") /\ HasTok) =>
        /\ production' = DispatchTable
        /\ status' = "running" =>
             \/ /\ production' \in {"if_statement", "while_statement", "function_def"}
                /\ stack'[Len(stack')] = Frame(production', "start", <<>>)
                /\ pos' = pos
             \/ /\ production' = "function_call"
                /\ stack' = Pop /\ ret'[1] = "FunctionCall"
             \/ /\ production' = "assign_statement"
                /\ stack' = Pop /\ ret'[1] = "Assign"
             \/ /\ production' = "empty"
                /\ stack' = Pop /\ ret' = EmptyOp
      ]_vars

C4_Witness ==
    /\ At("block", "statement")
    /\ production = "function_call"
    /\ ret[1] = "FunctionCall"
    /\ Len(ret[3]) = 2

(***************************************************************************)
(* C5.  The Block of the returned Program has one child for each           *)
(* top-level statement of the source, in source order: the kinds of its    *)
(* children are the kinds of the statements that start at column 0 (a      *)
(* blank line is an empty statement).  Stated for the sources whose blocks *)
(* are all indented.                                                       *)
(***************************************************************************)
C5_TopLevelChildren ==
    (Returned /\ BodiesIndented) => Kinds(Children) = TopLevelKinds(1)

(***************************************************************************)
(* C6.  expr() gives back the tree of every expression written with the    *)
(* parentheses that precedence (multiplicative over additive over          *)
(* comparison) and left associativity require, and stops at the token      *)
(* after it.                                                               *)
(***************************************************************************)
C6_Precedence ==
    (src # None /\ status # "running") =>
        /\ status = "returned"
        /\ ret = src
        /\ Tok(pos).type = NEWLINE

\* a + b * c and (a + b) * c
C6_Witness ==
    /\ Returned
    /\ ret = src
    /\ Len(src) = 4
    /\ \/ src[3].value = "+" /\ Len(src[4]) = 4 /\ src[4][3].value = "*"
       \/ src[3].value = "*" /\ Len(src[2]) = 4 /\ src[2][3].value = "+"

(***************************************************************************)
(* C7.  A token that cannot start a factor where an expression is due      *)
(* aborts the parse: no assignment of a returned tree lacks its            *)
(* right-hand side.                                                        *)
(***************************************************************************)
C7_NoAbsentExpression ==
    Returned =>
        \A k \in 1..Len(Children) :
            Children[k][1] = "Assign" => Children[k][4] # None

(***************************************************************************)
(* C8.  In the tree returned for a source that is not empty, the           *)
(* top-level Block and the bodies of function definitions, while loops     *)
(* and if / elif / else branches are not empty.                            *)
(***************************************************************************)
C8_NoEmptyBlock ==
    (Returned /\ tokens # <<EOFToken>>) => BlocksFilled(tree)

(***************************************************************************)
(* C9.  self.indent is the nesting depth: never negative, the number of    *)
(* constructs that are inside their block, one less than the number of     *)
(* blocks being parsed, and 0 when parse_program has returned.             *)
(***************************************************************************)
C9_IndentIsDepth ==
    /\ indent >= 0
    /\ status = "running" => indent = OpenBlocks(stack)
    /\ (status = "running" /\ stack # <<>> /\ Top.fn = "block")
         => indent = BlockFrames(stack) - 1
    /\ Returned => indent = 0

C9_Witness ==
    /\ At("block", "statement")
    /\ indent = 1
    /\ ret[1] = "If"
    /\ ret[4][2] # <<>>

(***************************************************************************)
(* C10.  When parse_program has returned a Program the current token is    *)
(* the end marker.                                                         *)
(***************************************************************************)
C10_ReturnsAtEndMarker ==
    Returned => (Tok(pos).type = ENDMARKER /\ PyEq(Tok(pos), EOF))

C10_Witness ==
    /\ Returned
    /\ Len(Children) = 3
    /\ tokens[Len(tokens)] = EOFToken
    /\ pos = Len(tokens)

====
